---- MODULE Spec2Model ----
(***************************************************************************)
(* Causal DAG test double of loro-core (crates/loro-core/src/dag/test.rs): *)
(* TestDag with push, merge and _try_push_node, driven sequentially by a   *)
(* harness that owns one TestDag per replica.                              *)
(***************************************************************************)
EXTENDS Integers, Sequences, FiniteSets, TLC

\* Number of replicas the harness creates (test_3dags calls test(3, ..)).
dag_num == 3
\* Largest span length a push is given.
MaxLen == 2
\* Largest number of nodes, and largest total length, created by push over
\* all replicas.
MaxOps == 3
\* Largest number of calls (push or merge) in a run of test_dag's calls;
\* test_dag itself makes seven.
ScenarioOps == 7
\* Caps of the property test: pushes before the full merge, and after it.
MaxBefore == 1
MaxAfter == 2

ClientIDs == 0 .. (dag_num - 1)

\* The two replicas of test_dag: a = TestDag::new(0), b = TestDag::new(1).
TwoDags == {0, 1}

VARIABLES
  dags,      \* dags[r]: the TestDag owned by replica r
  m,         \* the merge in progress (its loop position and queues), or Idle
  pc,        \* position of the property test (find_common_ancestors::test)
  idx,       \* loop index of the property test's merge loops
  expected,  \* the property test's expected ancestor, once taken
  log        \* the calls made so far, where the harness is test_dag

vars == <<dags, m, pc, idx, expected, log>>

----------------------------------------------------------------------------
\* Values

ID(client_id, counter) == [client_id |-> client_id, counter |-> counter]

TestNode(id, lamport, deps, len) ==
  [id |-> id, lamport |-> lamport, len |-> len, deps |-> deps]

\* Option
None == [some |-> FALSE]
Some(x) == [some |-> TRUE, value |-> x]

\* FxHashMap::default(): a map with no entry.
EmptyMap == [x \in {} |-> 0]

\* HashMap insert / entry().or_insert() followed by an assignment.
MapPut(f, k, v) == [x \in (DOMAIN f) \cup {k} |-> IF x = k THEN v ELSE f[x]]

\* TestDag::new
new(client_id) ==
  [nodes |-> EmptyMap, frontier |-> <<>>, version_vec |-> EmptyMap,
   next_lamport |-> 0, client_id |-> client_id]

Max(a, b) == IF a >= b THEN a ELSE b

SeqToSet(s) == {s[k] : k \in 1 .. Len(s)}

----------------------------------------------------------------------------
\* TestDag's Dag implementation

\* contains that takes the last counter of a replica as not yet known.
contains_off_by_one(dag, id) ==
  /\ id.client_id \in DOMAIN dag.version_vec
  /\ dag.version_vec[id.client_id] > id.counter + 1

\* Dag::contains
contains(dag, id) ==
  /\ id.client_id \in DOMAIN dag.version_vec
  /\ dag.version_vec[id.client_id] > id.counter

\* Dag::get: the first node of id's replica whose span holds id.
get(dag, id) ==
  IF id.client_id \notin DOMAIN dag.nodes THEN None
  ELSE LET v == dag.nodes[id.client_id]
           hit == {j \in 1 .. Len(v) : /\ id.counter >= v[j].id.counter
                                        /\ id.counter < v[j].id.counter + v[j].len}
       IN IF hit = {} THEN None
          ELSE Some(v[CHOOSE j \in hit : \A j2 \in hit : j <= j2])

\* Dag::roots: the first node of every replica's list.
roots(dag) == {dag.nodes[c][1] : c \in DOMAIN dag.nodes}

\* The causal ancestors of id (id included) over the deps graph: the ids
\* before it in its own span, and the ancestors of its node's deps.
RECURSIVE ancestors(_, _)
ancestors(dag, id) ==
  LET n == get(dag, id)
  IN IF ~n.some THEN {}
     ELSE {ID(id.client_id, j) : j \in n.value.id.counter .. id.counter}
          \cup UNION {ancestors(dag, d) : d \in SeqToSet(n.value.deps)}

\* The lamport value of id: its node's, plus id's offset in the span.
lamport_of(dag, id) ==
  LET n == get(dag, id).value IN n.lamport + (id.counter - n.id.counter)

\* get_common_ancestor whose tie-break among several maximal common
\* ancestors prefers the replica of its first argument.
get_common_ancestor_first_arg(dag, a, b) ==
  LET common == ancestors(dag, a) \cap ancestors(dag, b)
      maximal == {x \in common :
                    \A y \in common \ {x} : x \notin ancestors(dag, y)}
      own == {x \in maximal : x.client_id = a.client_id}
  IN IF maximal = {} THEN None
     ELSE IF own # {} THEN Some(CHOOSE x \in own : TRUE)
     ELSE Some(CHOOSE x \in maximal : TRUE)

\* Dag::get_common_ancestor of dag.rs: the greatest common causal ancestor
\* of a and b; among several maximal ones the one of highest lamport, then
\* of lowest replica id; None when there is none.
get_common_ancestor(dag, a, b) ==
  LET common == ancestors(dag, a) \cap ancestors(dag, b)
      maximal == {x \in common :
                    \A y \in common \ {x} : x \notin ancestors(dag, y)}
      better(x, y) ==
        \/ lamport_of(dag, x) > lamport_of(dag, y)
        \/ /\ lamport_of(dag, x) = lamport_of(dag, y)
           /\ x.client_id <= y.client_id
  IN IF maximal = {} THEN None
     ELSE Some(CHOOSE x \in maximal : \A y \in maximal : better(x, y))

\* update_frontier(frontier, new_node_id, new_node_deps) of dag.rs: every
\* dep that is a frontier tip is removed, the new id is added as a tip.
update_frontier(frontier, new_node_id, new_node_deps) ==
  Append(SelectSeq(frontier, LAMBDA x : x \notin SeqToSet(new_node_deps)),
         new_node_id)

\* push that forgets to capture the frontier as the new node's deps.
push_no_deps(dag, len) ==
  LET client_id == dag.client_id
      counter == IF client_id \in DOMAIN dag.version_vec
                 THEN dag.version_vec[client_id] ELSE 0
      id == ID(client_id, counter)
      old == IF client_id \in DOMAIN dag.nodes THEN dag.nodes[client_id] ELSE <<>>
  IN [dag EXCEPT
        !.version_vec = MapPut(dag.version_vec, client_id, counter + len),
        !.frontier = <<id>>,
        !.nodes = MapPut(dag.nodes, client_id,
                         Append(old, TestNode(id, dag.next_lamport, <<>>, len))),
        !.next_lamport = dag.next_lamport + len]

\* push that advances the counter by one instead of by len.
push_bump_one(dag, len) ==
  LET client_id == dag.client_id
      counter == IF client_id \in DOMAIN dag.version_vec
                 THEN dag.version_vec[client_id] ELSE 0
      id == ID(client_id, counter)
      old == IF client_id \in DOMAIN dag.nodes THEN dag.nodes[client_id] ELSE <<>>
  IN [dag EXCEPT
        !.version_vec = MapPut(dag.version_vec, client_id, counter + 1),
        !.frontier = <<id>>,
        !.nodes = MapPut(dag.nodes, client_id,
                         Append(old, TestNode(id, dag.next_lamport, dag.frontier, len))),
        !.next_lamport = dag.next_lamport + len]

\* push that records only the first frontier tip as the new node's deps.
push_first_dep(dag, len) ==
  LET client_id == dag.client_id
      counter == IF client_id \in DOMAIN dag.version_vec
                 THEN dag.version_vec[client_id] ELSE 0
      id == ID(client_id, counter)
      old == IF client_id \in DOMAIN dag.nodes THEN dag.nodes[client_id] ELSE <<>>
      deps == IF dag.frontier = <<>> THEN <<>> ELSE <<dag.frontier[1]>>
  IN [dag EXCEPT
        !.version_vec = MapPut(dag.version_vec, client_id, counter + len),
        !.frontier = <<id>>,
        !.nodes = MapPut(dag.nodes, client_id,
                         Append(old, TestNode(id, dag.next_lamport, deps, len))),
        !.next_lamport = dag.next_lamport + len]

\* push that advances next_lamport by one, whatever the span's length.
push_lamport_one(dag, len) ==
  LET client_id == dag.client_id
      counter == IF client_id \in DOMAIN dag.version_vec
                 THEN dag.version_vec[client_id] ELSE 0
      id == ID(client_id, counter)
      old == IF client_id \in DOMAIN dag.nodes THEN dag.nodes[client_id] ELSE <<>>
  IN [dag EXCEPT
        !.version_vec = MapPut(dag.version_vec, client_id, counter + len),
        !.frontier = <<id>>,
        !.nodes = MapPut(dag.nodes, client_id,
                         Append(old, TestNode(id, dag.next_lamport, dag.frontier, len))),
        !.next_lamport = dag.next_lamport + 1]

\* push that stamps the new node with the replica's counter as its lamport.
push_counter_lamport(dag, len) ==
  LET client_id == dag.client_id
      counter == IF client_id \in DOMAIN dag.version_vec
                 THEN dag.version_vec[client_id] ELSE 0
      id == ID(client_id, counter)
      old == IF client_id \in DOMAIN dag.nodes THEN dag.nodes[client_id] ELSE <<>>
  IN [dag EXCEPT
        !.version_vec = MapPut(dag.version_vec, client_id, counter + len),
        !.frontier = <<id>>,
        !.nodes = MapPut(dag.nodes, client_id,
                         Append(old, TestNode(id, counter, dag.frontier, len))),
        !.next_lamport = dag.next_lamport + len]

\* TestDag::push
push(dag, len) ==
  LET client_id == dag.client_id
      counter == IF client_id \in DOMAIN dag.version_vec
                 THEN dag.version_vec[client_id] ELSE 0
      id == ID(client_id, counter)
      deps == dag.frontier
      old == IF client_id \in DOMAIN dag.nodes THEN dag.nodes[client_id] ELSE <<>>
  IN [dag EXCEPT
        !.version_vec = MapPut(dag.version_vec, client_id, counter + len),
        !.frontier = <<id>>,
        !.nodes = MapPut(dag.nodes, client_id,
                         Append(old, TestNode(id, dag.next_lamport, deps, len))),
        !.next_lamport = dag.next_lamport + len]

\* An admission that puts the node at the head of its replica's list.
Admit_front(dag, node, frontier, next_lamport) ==
  LET client_id == node.id.client_id
      old == IF client_id \in DOMAIN dag.nodes THEN dag.nodes[client_id] ELSE <<>>
  IN [dag EXCEPT
        !.frontier = frontier,
        !.nodes = MapPut(dag.nodes, client_id, <<node>> \o old),
        !.version_vec = MapPut(dag.version_vec, client_id,
                               node.id.counter + node.len),
        !.next_lamport = next_lamport]

\* An admission that advances the version vector by one op, whatever the
\* node's length.
Admit_one_op(dag, node, frontier, next_lamport) ==
  LET client_id == node.id.client_id
      old == IF client_id \in DOMAIN dag.nodes THEN dag.nodes[client_id] ELSE <<>>
  IN [dag EXCEPT
        !.frontier = frontier,
        !.nodes = MapPut(dag.nodes, client_id, Append(old, node)),
        !.version_vec = MapPut(dag.version_vec, client_id, node.id.counter + 1),
        !.next_lamport = next_lamport]

\* The admission of node into dag (the tail of _try_push_node), with the
\* frontier and the lamport clock it leaves given.
Admit(dag, node, frontier, next_lamport) ==
  LET client_id == node.id.client_id
      old == IF client_id \in DOMAIN dag.nodes THEN dag.nodes[client_id] ELSE <<>>
  IN [dag EXCEPT
        !.frontier = frontier,
        !.nodes = MapPut(dag.nodes, client_id, Append(old, node)),
        !.version_vec = MapPut(dag.version_vec, client_id,
                               node.id.counter + node.len),
        !.next_lamport = next_lamport]

HasMissingDep(dag, node) ==
  \E j \in 1 .. Len(node.deps) : ~contains(dag, node.deps[j])

\* _try_push_node that adds the new tip without removing the deps.
try_push_node_keep_tips(dag, node, pending, i) ==
  IF contains(dag, node.id)
  THEN [dag |-> dag, pending |-> pending, brk |-> FALSE]
  ELSE IF HasMissingDep(dag, node)
  THEN [dag |-> dag, pending |-> Append(pending, <<node.id.client_id, i>>),
        brk |-> TRUE]
  ELSE [dag |-> Admit(dag, node, Append(dag.frontier, node.id),
                      Max(dag.next_lamport, node.lamport + node.len)),
        pending |-> pending, brk |-> FALSE]

\* _try_push_node without the test that the node is already contained.
try_push_node_no_contains(dag, node, pending, i) ==
  IF HasMissingDep(dag, node)
  THEN [dag |-> dag, pending |-> Append(pending, <<node.id.client_id, i>>),
        brk |-> TRUE]
  ELSE [dag |-> Admit(dag, node,
                      update_frontier(dag.frontier, node.id, node.deps),
                      Max(dag.next_lamport, node.lamport + node.len)),
        pending |-> pending, brk |-> FALSE]

\* _try_push_node without the test that every dep is contained.
try_push_node_no_deps_check(dag, node, pending, i) ==
  IF contains(dag, node.id)
  THEN [dag |-> dag, pending |-> pending, brk |-> FALSE]
  ELSE [dag |-> Admit(dag, node,
                      update_frontier(dag.frontier, node.id, node.deps),
                      Max(dag.next_lamport, node.lamport + node.len)),
        pending |-> pending, brk |-> FALSE]

\* _try_push_node that leaves next_lamport alone.
try_push_node_no_lamport(dag, node, pending, i) ==
  IF contains(dag, node.id)
  THEN [dag |-> dag, pending |-> pending, brk |-> FALSE]
  ELSE IF HasMissingDep(dag, node)
  THEN [dag |-> dag, pending |-> Append(pending, <<node.id.client_id, i>>),
        brk |-> TRUE]
  ELSE [dag |-> Admit(dag, node,
                      update_frontier(dag.frontier, node.id, node.deps),
                      dag.next_lamport),
        pending |-> pending, brk |-> FALSE]

\* TestDag::_try_push_node: the dag and the pending queue after the call,
\* and the returned bool (true: stop walking this replica's nodes).
try_push_node(dag, node, pending, i) ==
  IF contains(dag, node.id)
  THEN [dag |-> dag, pending |-> pending, brk |-> FALSE]
  ELSE IF HasMissingDep(dag, node)
  THEN [dag |-> dag, pending |-> Append(pending, <<node.id.client_id, i>>),
        brk |-> TRUE]
  ELSE [dag |-> Admit(dag, node,
                      update_frontier(dag.frontier, node.id, node.deps),
                      Max(dag.next_lamport, node.lamport + node.len)),
        pending |-> pending, brk |-> FALSE]

----------------------------------------------------------------------------
\* TestDag::merge, one _try_push_node call at a time.  The machine rests
\* right before a call of _try_push_node on other.nodes[client][i] (phases
\* "first": the walk over other.nodes, "retry": the walk from a popped
\* entry) or at the head of the while loop's body (phase "loop").

Idle ==
  [phase |-> "idle", self |-> 0, other |-> 0, todo |-> <<>>, client |-> 0,
   i |-> 0, pending |-> <<>>, current |-> <<>>]

\* A loop condition that looks at current only.
loop_head_current_only(ms) ==
  IF ms.current = <<>>
  THEN Idle
  ELSE [ms EXCEPT !.phase = "loop"]

\* The condition of the while loop: leave when both queues are empty.
loop_head(ms) ==
  IF ms.pending = <<>> /\ ms.current = <<>>
  THEN Idle
  ELSE [ms EXCEPT !.phase = "loop"]

\* The head of the while loop's body: swap the queues if current is empty,
\* and pop the entry to retry.
loop_pop(ms) ==
  LET cur == IF ms.current = <<>> THEN ms.pending ELSE ms.current
      pen == IF ms.current = <<>> THEN <<>> ELSE ms.pending
      top == cur[Len(cur)]
  IN [ms EXCEPT !.phase = "retry", !.client = top[1], !.i = top[2],
                !.current = SubSeq(cur, 1, Len(cur) - 1), !.pending = pen]

\* The outer for loop over other.nodes: the next replica's list, or the
\* hand-over of pending to current once every list has been walked.
next_client(ms) ==
  IF ms.todo # <<>>
  THEN [ms EXCEPT !.client = Head(ms.todo), !.i = 0, !.todo = Tail(ms.todo)]
  ELSE loop_head([ms EXCEPT !.current = ms.pending, !.pending = <<>>])

\* Entry of merge: order is the iteration order of other.nodes.
merge_begin(a, b, order) ==
  next_client([Idle EXCEPT !.phase = "first", !.self = a, !.other = b,
                           !.todo = order])

\* A step of merge whose retry tries the node of the popped entry only,
\* without walking on to the replica's following nodes.
merge_step_one_node(ms, self, other) ==
  IF ms.phase = "loop"
  THEN [dag |-> self, m |-> loop_pop(ms)]
  ELSE LET node_vec == other.nodes[ms.client]
           r == try_push_node(self, node_vec[ms.i + 1], ms.pending, ms.i)
           ms1 == [ms EXCEPT !.pending = r.pending]
       IN [dag |-> r.dag,
           m |-> IF ms.phase = "retry" THEN loop_head(ms1)
                 ELSE IF ~r.brk /\ ms.i + 1 < Len(node_vec)
                 THEN [ms1 EXCEPT !.i = ms.i + 1]
                 ELSE next_client(ms1)]

\* One step of merge: the pop of an entry at the head of the while loop, or
\* one call of _try_push_node and the control flow that follows it, up to
\* the next call or the next pop.
merge_step(ms, self, other) ==
  IF ms.phase = "loop"
  THEN [dag |-> self, m |-> loop_pop(ms)]
  ELSE LET node_vec == other.nodes[ms.client]
           r == try_push_node(self, node_vec[ms.i + 1], ms.pending, ms.i)
           ms1 == [ms EXCEPT !.pending = r.pending]
       IN [dag |-> r.dag,
           m |-> IF ~r.brk /\ ms.i + 1 < Len(node_vec)
                 THEN [ms1 EXCEPT !.i = ms.i + 1]
                 ELSE IF ms.phase = "first" THEN next_client(ms1)
                 ELSE loop_head(ms1)]

RECURSIVE merge_run(_, _, _)
merge_run(ms, self, other) ==
  IF ms.phase = "idle" THEN self
  ELSE LET r == merge_step(ms, self, other)
       IN merge_run(r.m, r.dag, other)

\* TestDag::merge as a whole, for one iteration order of other.nodes.
merge(self, other, order) == merge_run(merge_begin(0, 0, order), self, other)

\* The iteration orders a hash map with key set S can have.
Orders(S) ==
  {o \in [1 .. Cardinality(S) -> S] : \A j, k \in 1 .. Cardinality(S) : o[j] = o[k] => j = k}

----------------------------------------------------------------------------
\* The harness: operations run one after the other.

RECURSIVE SumOver(_, _)
SumOver(S, f) ==
  IF S = {} THEN 0
  ELSE LET r == CHOOSE x \in S : TRUE IN f[r] + SumOver(S \ {r}, f)

\* The nodes replica r has created itself.
OwnNodes(r) == IF r \in DOMAIN dags[r].nodes THEN dags[r].nodes[r] ELSE <<>>

TotalNodes == SumOver(ClientIDs, [r \in ClientIDs |-> Len(OwnNodes(r))])

TotalLen ==
  SumOver(ClientIDs,
          [r \in ClientIDs |-> IF r \in DOMAIN dags[r].version_vec
                               THEN dags[r].version_vec[r] ELSE 0])

\* The number of nodes dag holds.
NodeCount(dag) ==
  SumOver(DOMAIN dag.nodes, [c \in DOMAIN dag.nodes |-> Len(dag.nodes[c])])

\* There is room under cap n for one more push of length len.
Room(len, n) == TotalNodes < n /\ TotalLen + len <= n

Init ==
  /\ dags = [r \in ClientIDs |-> new(r)]
  /\ m = Idle
  /\ pc = "free"
  /\ idx = 0
  /\ expected = None
  /\ log = <<>>

\* dags[r].push(len)
DoPush(r, len, n) ==
  /\ pc = "free"
  /\ m.phase = "idle"
  /\ Room(len, n)
  /\ dags' = [dags EXCEPT ![r] = push(dags[r], len)]
  /\ UNCHANGED <<m, pc, idx, expected, log>>

\* dags[a].merge(&dags[b]) is entered (while dags[a] holds at most n nodes:
\* with zero-length nodes about, every merge admits them once more).
DoMerge(a, b, n) ==
  /\ pc = "free"
  /\ m.phase = "idle"
  /\ a # b
  /\ NodeCount(dags[a]) <= n
  /\ \E order \in Orders(DOMAIN dags[b].nodes) : m' = merge_begin(a, b, order)
  /\ UNCHANGED <<dags, pc, idx, expected, log>>

\* The merge in progress takes its next step.
MergeStep ==
  /\ m.phase # "idle"
  /\ LET r == merge_step(m, dags[m.self], dags[m.other])
     IN /\ m' = r.m
        /\ dags' = [dags EXCEPT ![m.self] = r.dag]
  /\ UNCHANGED <<pc, idx, expected, log>>

\* Pushes of length >= 1 and merges among dag_num replicas.
Next ==
  \/ \E r \in ClientIDs, len \in 1 .. MaxLen : DoPush(r, len, MaxOps)
  \/ \E a, b \in ClientIDs : DoMerge(a, b, MaxOps)
  \/ MergeStep

Spec == Init /\ [][Next]_vars

\* Spec, where a merge that has been entered keeps running: merge is one
\* call, and nothing else runs until it returns.
SpecFair == Spec /\ WF_vars(MergeStep)

\* The same with push(0) among the calls: push takes any usize.  A merge
\* that has been entered keeps running (the program is sequential).
NextZero ==
  \/ \E r \in TwoDags, len \in 0 .. MaxLen : DoPush(r, len, MaxOps)
  \/ \E a, b \in TwoDags : DoMerge(a, b, MaxOps)
  \/ MergeStep

SpecZero == Init /\ [][NextZero]_vars /\ WF_vars(MergeStep)

\* The calls test_dag makes, in any order: a.push(1), b.push(1),
\* a.merge(&b), b.merge(&a), each written to the log.
ScriptPush(r) ==
  /\ pc = "free"
  /\ m.phase = "idle"
  /\ Len(log) < ScenarioOps
  /\ dags' = [dags EXCEPT ![r] = push(dags[r], 1)]
  /\ log' = Append(log, <<"push", r>>)
  /\ UNCHANGED <<m, pc, idx, expected>>

ScriptMerge(a, b) ==
  /\ pc = "free"
  /\ m.phase = "idle"
  /\ a # b
  /\ Len(log) < ScenarioOps
  /\ \E order \in Orders(DOMAIN dags[b].nodes) : m' = merge_begin(a, b, order)
  /\ log' = Append(log, <<"merge", a, b>>)
  /\ UNCHANGED <<dags, pc, idx, expected>>

NextTestDag ==
  \/ \E r \in TwoDags : ScriptPush(r)
  \/ \E a, b \in TwoDags : ScriptMerge(a, b)
  \/ MergeStep

SpecTestDag == Init /\ [][NextTestDag]_vars

----------------------------------------------------------------------------
\* The property test find_common_ancestors::test with dag_num replicas.
\* Its merges are taken whole.

\* find_common_ancestors::apply: push, then merge if merge_with is Some.
apply(ds, dag_idx, len, merge_with, order) ==
  LET pushed == [ds EXCEPT ![dag_idx] = push(ds[dag_idx], len)]
  IN IF ~merge_with.some THEN pushed
     ELSE [pushed EXCEPT
             ![dag_idx] = merge(pushed[dag_idx], pushed[merge_with.value], order)]

\* gen_interaction and preprocess: merge_with is None or another replica.
MergeWith(dag_idx) == {None} \cup {Some(w) : w \in ClientIDs \ {dag_idx}}

\* The orders other.nodes may be walked in when merge_with is Some.
ApplyOrders(ds, merge_with) ==
  IF merge_with.some THEN Orders(DOMAIN ds[merge_with.value].nodes) ELSE {<<>>}

InitTest ==
  /\ dags = [r \in ClientIDs |-> new(r)]
  /\ m = Idle
  /\ pc = "before"
  /\ idx = 0
  /\ expected = None
  /\ log = <<>>

\* for interaction in before_merge_insertion { apply(..) }
TestBefore ==
  /\ pc = "before"
  /\ idx < MaxBefore
  /\ \E dag_idx \in ClientIDs, len \in 1 .. MaxLen :
       \E merge_with \in MergeWith(dag_idx) :
         \E order \in ApplyOrders(dags, merge_with) :
           dags' = apply(dags, dag_idx, len, merge_with, order)
  /\ idx' = idx + 1
  /\ UNCHANGED <<m, pc, expected, log>>

\* The before-vector is exhausted.
TestBeforeDone ==
  /\ pc = "before"
  /\ pc' = "gather"
  /\ idx' = 1
  /\ UNCHANGED <<dags, m, expected, log>>

\* for dag in &dags[1..] { dag0.merge(dag) }
TestGather ==
  /\ pc = "gather"
  /\ idx < dag_num
  /\ \E order \in Orders(DOMAIN dags[idx].nodes) :
       dags' = [dags EXCEPT ![0] = merge(dags[0], dags[idx], order)]
  /\ idx' = idx + 1
  /\ UNCHANGED <<m, pc, expected, log>>

\* dag0.push(1); let expected = dag0.frontier()[0];
TestPushExpected ==
  /\ pc = "gather"
  /\ idx = dag_num
  /\ LET d == push(dags[0], 1)
     IN /\ dags' = [dags EXCEPT ![0] = d]
        /\ expected' = Some(d.frontier[1])
  /\ pc' = "spread"
  /\ idx' = 1
  /\ UNCHANGED <<m, log>>

\* for dag in &mut dags[1..] { dag.merge(dag0) }
TestSpread ==
  /\ pc = "spread"
  /\ idx < dag_num
  /\ \E order \in Orders(DOMAIN dags[0].nodes) :
       dags' = [dags EXCEPT ![idx] = merge(dags[idx], dags[0], order)]
  /\ idx' = idx + 1
  /\ UNCHANGED <<m, pc, expected, log>>

TestSpreadDone ==
  /\ pc = "spread"
  /\ idx = dag_num
  /\ pc' = "after"
  /\ idx' = 0
  /\ UNCHANGED <<dags, m, expected, log>>

\* The after-loop: an odd dag merges with the odd, an even with the even;
\* any other merge_with is set to None before apply.
TestAfter ==
  /\ pc = "after"
  /\ idx < MaxAfter
  /\ \E dag_idx \in ClientIDs, len \in 1 .. MaxLen :
       \E given \in MergeWith(dag_idx) :
         LET merge_with == IF given.some /\ given.value % 2 # dag_idx % 2
                           THEN None ELSE given
         IN \E order \in ApplyOrders(dags, merge_with) :
              dags' = apply(dags, dag_idx, len, merge_with, order)
  /\ idx' = idx + 1
  /\ UNCHANGED <<m, pc, expected, log>>

\* dag1.push(1); dag0.merge(dag1);
TestFinal ==
  /\ pc = "after"
  /\ LET d1 == push(dags[1], 1)
     IN \E order \in Orders(DOMAIN d1.nodes) :
          dags' = [dags EXCEPT ![1] = d1, ![0] = merge(dags[0], d1, order)]
  /\ pc' = "done"
  /\ UNCHANGED <<m, idx, expected, log>>

\* dags[0].get_common_ancestor(last node id of replica 0, of replica 1)
TestActual ==
  LET v0 == dags[0].nodes[0]
      v1 == dags[1].nodes[1]
  IN get_common_ancestor(dags[0], v0[Len(v0)].id, v1[Len(v1)].id)

NextTest ==
  \/ TestBefore
  \/ TestBeforeDone
  \/ TestGather
  \/ TestPushExpected
  \/ TestSpread
  \/ TestSpreadDone
  \/ TestAfter
  \/ TestFinal

SpecTest == InitTest /\ [][NextTest]_vars

----------------------------------------------------------------------------
\* Properties

KnownNodes(dag) == UNION {SeqToSet(dag.nodes[c]) : c \in DOMAIN dag.nodes}

SpanEnd(n) == ID(n.id.client_id, n.id.counter + n.len - 1)

\* Every node of other is contained in self.
AllContained(self, other) ==
  \A n \in KnownNodes(other) : contains(self, SpanEnd(n))

SameHistory(x, y) ==
  /\ SeqToSet(x.frontier) = SeqToSet(y.frontier)
  /\ x.version_vec = y.version_vec
  /\ DOMAIN x.nodes = DOMAIN y.nodes
  /\ \A c \in DOMAIN x.nodes : SeqToSet(x.nodes[c]) = SeqToSet(y.nodes[c])

\* C1: between operations, for any two replicas a and b, a.merge(b) and
\* b.merge(a) on copies, in any iteration orders, leave the same frontier
\* (as a set), the same version vector and the same nodes per replica id.
C1_MergeConverges ==
  m.phase = "idle" =>
    \A a, b \in ClientIDs : a < b =>
      \A oa \in Orders(DOMAIN dags[b].nodes), ob \in Orders(DOMAIN dags[a].nodes) :
        SameHistory(merge(dags[a], dags[b], oa), merge(dags[b], dags[a], ob))

\* Two replicas that each hold a node the other lacks, one of them holding
\* nodes of two replicas, whose merge has two concurrent tips.
C1_Witness ==
  /\ m.phase = "idle"
  /\ \E a, b \in ClientIDs :
       /\ a # b
       /\ ~AllContained(dags[a], dags[b])
       /\ ~AllContained(dags[b], dags[a])
       /\ Cardinality(DOMAIN dags[b].nodes) >= 2
       /\ \E oa \in Orders(DOMAIN dags[b].nodes) :
            Len(merge(dags[a], dags[b], oa).frontier) >= 2

\* C2: while self.merge(other) runs with every node of other contained in
\* self, no step changes self (nodes, version vector, frontier,
\* next_lamport) and both queues stay empty.
C2_RemergeNoOp ==
  [][(m.phase # "idle" /\ AllContained(dags[m.self], dags[m.other]))
       => (dags' = dags /\ m'.pending = <<>> /\ m'.current = <<>>)]_vars

\* A merge has just been entered whose other holds nodes of two replicas,
\* all of them contained in self.
C2_Witness ==
  /\ m.phase = "first"
  /\ m.i = 0
  /\ Len(m.todo) + 1 = Cardinality(DOMAIN dags[m.other].nodes)
  /\ Cardinality(DOMAIN dags[m.other].nodes) >= 2
  /\ AllContained(dags[m.self], dags[m.other])

\* C3: at the end of the property test, get_common_ancestor of the last
\* node of replica 0 and the last node of replica 1, on replica 0, is the
\* op replica 0 pushed after merging every replica.
C3_PropertyTest == pc = "done" => TestActual = expected

\* The test has ended after replica 0 merged replica 2 in the after-loop.
C3_Witness ==
  /\ pc = "done"
  /\ expected.some
  /\ \E n \in KnownNodes(dags[0]) :
       /\ n.id.client_id = 2
       /\ expected.value \in SeqToSet(n.deps)

Gapless(dag) ==
  /\ DOMAIN dag.nodes = DOMAIN dag.version_vec
  /\ \A c \in DOMAIN dag.nodes :
       LET v == dag.nodes[c]
       IN /\ Len(v) >= 1
          /\ v[1].id.counter = 0
          /\ \A j \in 1 .. Len(v) : v[j].id.client_id = c /\ v[j].len >= 1
          /\ \A j \in 1 .. Len(v) - 1 :
               v[j + 1].id.counter = v[j].id.counter + v[j].len
          /\ v[Len(v)].id.counter + v[Len(v)].len = dag.version_vec[c]

\* C4: in every state, for every replica id an instance knows, its node
\* list starts at counter 0, is sorted without gaps or overlaps, and covers
\* exactly [0, version_vec[r]).
C4_GaplessPartition == \A r \in ClientIDs : Gapless(dags[r])

\* An instance holds two nodes of another replica, one of length 2.
C4_Witness ==
  \E r \in ClientIDs : \E c \in DOMAIN dags[r].nodes :
    /\ c # r
    /\ Len(dags[r].nodes[c]) >= 2
    /\ \E j \in 1 .. Len(dags[r].nodes[c]) : dags[r].nodes[c][j].len = 2

CausallyClosed(dag) ==
  \A n \in KnownNodes(dag) : \A d \in SeqToSet(n.deps) : contains(dag, d)

\* C5: in every state, also between the calls of _try_push_node inside a
\* merge, every dep of every stored node is contained in the instance.
C5_CausalClosure == \A r \in ClientIDs : CausallyClosed(dags[r])

\* A merge is about to retry a pending entry after it has admitted a node
\* of another replica that has deps.
C5_Witness ==
  /\ m.phase = "retry"
  /\ \E n \in KnownNodes(dags[m.self]) :
       n.id.client_id # m.self /\ n.deps # <<>>

\* The span ends of the known nodes no known node has as a dep.
Tips(dag) ==
  LET referenced == UNION {SeqToSet(n.deps) : n \in KnownNodes(dag)}
  IN {SpanEnd(n) : n \in {x \in KnownNodes(dag) : SpanEnd(x) \notin referenced}}

\* C6: after every completed push or merge the frontier is, without
\* duplicates, exactly the set of span-end ids no known node depends on.
C6_FrontierIsTips ==
  m.phase = "idle" =>
    \A r \in ClientIDs :
      /\ SeqToSet(dags[r].frontier) = Tips(dags[r])
      /\ Len(dags[r].frontier) = Cardinality(SeqToSet(dags[r].frontier))

\* C7: a push of n on an instance that holds only its own nodes leaves the
\* frontier [(replica, previous_counter + n - 1)], and the new node's deps
\* are the frontier as it was.
C7_PushFrontier ==
  [][\A r \in ClientIDs :
       (/\ m.phase = "idle"
        /\ m'.phase = "idle"
        /\ dags'[r] # dags[r]
        /\ DOMAIN dags[r].nodes \subseteq {r})
       => LET prev == IF r \in DOMAIN dags[r].version_vec
                      THEN dags[r].version_vec[r] ELSE 0
              n == dags'[r].version_vec[r] - prev
              v == dags'[r].nodes[r]
          IN /\ dags'[r].frontier = <<ID(r, prev + n - 1)>>
             /\ v[Len(v)].deps = dags[r].frontier]_vars

\* C8: push(0) leaves the instance as it was.
C8_PushZeroRejected ==
  [][\A r \in ClientIDs :
       (/\ m.phase = "idle"
        /\ m' = m
        /\ dags' = [dags EXCEPT ![r] = push(dags[r], 0)])
       => dags' = dags]_vars

\* C9: every merge that is entered ends.
C9_MergeEnds == (m.phase # "idle") ~> (m.phase = "idle")

\* The calls of test_dag, in its order.
TestDagCalls ==
  << <<"push", 0>>, <<"push", 1>>, <<"merge", 0, 1>>, <<"push", 0>>,
     <<"push", 0>>, <<"push", 1>>, <<"merge", 1, 0>> >>

\* The first n calls of test_dag have been made, and have returned.
AfterCalls(n) == m.phase = "idle" /\ log = SubSeq(TestDagCalls, 1, n)

\* C10: in test_dag, a's frontier is [{0,0}] after its first push, holds
\* exactly {0,0} and {1,0} after a.merge(b), and is [{0,1}] after the next
\* push, whose node depends on both; after the last call, b.merge(a), b's
\* frontier has two elements and b's next_lamport is 3.
C10_TestDagScenario ==
  /\ AfterCalls(1) => dags[0].frontier = <<ID(0, 0)>>
  /\ AfterCalls(3) =>
       /\ Len(dags[0].frontier) = 2
       /\ SeqToSet(dags[0].frontier) = {ID(0, 0), ID(1, 0)}
  /\ AfterCalls(4) =>
       /\ dags[0].frontier = <<ID(0, 1)>>
       /\ SeqToSet(get(dags[0], ID(0, 1)).value.deps) = {ID(0, 0), ID(1, 0)}
  /\ AfterCalls(7) =>
       /\ Len(dags[1].frontier) = 2
       /\ dags[1].next_lamport = 3

\* test_dag has made all its calls.
C10_Witness == AfterCalls(7)

\* C11: after the last call of test_dag, b.merge(a),
\* b.get_common_ancestor({0,2}, {1,1}) is Some({1,0}).
C11_TestDagAncestor ==
  AfterCalls(7) =>
    get_common_ancestor(dags[1], ID(0, 2), ID(1, 1)) = Some(ID(1, 0))

\* test_dag has made all its calls, and b holds both queried nodes.
C11_Witness ==
  /\ AfterCalls(7)
  /\ get(dags[1], ID(0, 2)).some
  /\ get(dags[1], ID(1, 1)).some

\* The IDs dag contains.
ContainedIDs(dag) ==
  UNION {{ID(c, j) : j \in 0 .. dag.version_vec[c] - 1} :
           c \in DOMAIN dag.version_vec}

\* The common ancestors of a and b that are an ancestor of no other one.
MaximalCommon(dag, a, b) ==
  LET common == ancestors(dag, a) \cap ancestors(dag, b)
  IN {x \in common : \A y \in common \ {x} : x \notin ancestors(dag, y)}

\* An order on IDs that lists every pair of different IDs once.
IDBefore(a, b) ==
  \/ a.client_id < b.client_id
  \/ a.client_id = b.client_id /\ a.counter < b.counter

C13_RootsAreDepless ==
  \A r \in DOMAIN dags :
    roots(dags[r]) = {n \in KnownNodes(dags[r]) : n.deps = <<>>}

\* The greatest lamport + len over the known nodes, 0 when there are none.
LamportEnd(dag) ==
  LET ends == {0} \cup {n.lamport + n.len : n \in KnownNodes(dag)}
  IN CHOOSE x \in ends : \A y \in ends : x >= y

\* C14: with pushes of len >= 1 and merges, next_lamport is always the
\* maximum over the known nodes of lamport + len, 0 when there are none,
\* and no step decreases it.
C14_LamportClock ==
  /\ [](\A r \in DOMAIN dags : dags[r].next_lamport = LamportEnd(dags[r]))
  /\ [][\A r \in DOMAIN dags :
          dags'[r].next_lamport >= dags[r].next_lamport]_vars

\* A merge has raised a replica's clock above the end of its own nodes.
C14_Witness ==
  /\ m.phase = "idle"
  /\ \E r \in DOMAIN dags :
       /\ r \in DOMAIN dags[r].nodes
       /\ \A n \in SeqToSet(dags[r].nodes[r]) :
            n.lamport + n.len < dags[r].next_lamport

\* C15: every known node's lamport is at least 1 + the lamport of each of
\* its deps, and along each replica's list the lamports do not decrease.
C15_LamportCausality ==
  \A r \in DOMAIN dags : \A c \in DOMAIN dags[r].nodes :
    \A k \in 1 .. Len(dags[r].nodes[c]) :
      LET n == dags[r].nodes[c][k]
      IN /\ \A j \in 1 .. Len(n.deps) :
              /\ contains(dags[r], n.deps[j])
              /\ n.lamport >= 1 + lamport_of(dags[r], n.deps[j])
         /\ k > 1 => dags[r].nodes[c][k - 1].lamport <= n.lamport

\* A replica has merged a node that another replica pushed on top of a
\* node not its own, and holds two nodes of one replica.
C15_Witness ==
  \E r \in DOMAIN dags :
    /\ \E n \in KnownNodes(dags[r]) : \E d \in SeqToSet(n.deps) :
         /\ n.id.client_id # r
         /\ d.client_id # n.id.client_id
         /\ get(dags[r], d).some
    /\ \E c \in DOMAIN dags[r].nodes : Len(dags[r].nodes[c]) >= 2

\* s is a prefix of t.
IsPrefix(s, t) == Len(s) <= Len(t) /\ SubSeq(t, 1, Len(s)) = s

\* y holds everything x holds, unchanged and in place.
Grows(x, y) ==
  /\ DOMAIN x.nodes \subseteq DOMAIN y.nodes
  /\ \A c \in DOMAIN x.nodes : IsPrefix(x.nodes[c], y.nodes[c])
  /\ DOMAIN x.version_vec \subseteq DOMAIN y.version_vec
  /\ \A c \in DOMAIN x.version_vec : x.version_vec[c] <= y.version_vec[c]

\* C16: no step of push or merge removes or alters a stored node; every
\* per-replica list keeps its nodes as a prefix, and no version-vector
\* entry decreases.
C16_AppendOnly == [][\A r \in DOMAIN dags : Grows(dags[r], dags'[r])]_vars

\* A merge in progress has appended to a list that already held a node,
\* on a replica that also holds a node of its own.
C16_Witness ==
  /\ m.phase # "idle"
  /\ m.self \in DOMAIN dags[m.self].nodes
  /\ \E c \in DOMAIN dags[m.self].nodes :
       /\ c # m.self
       /\ Len(dags[m.self].nodes[c]) >= 2
       /\ dags[m.self].version_vec[c] = dags[m.other].version_vec[c]

\* The replica at the end of the pass of the while loop that state ms is
\* in: the loop is run until current is drained.
RECURSIVE pass_run(_, _, _)
pass_run(ms, self, other) ==
  LET r == merge_step(ms, self, other)
  IN IF r.m.phase = "idle" \/ (r.m.phase = "loop" /\ r.m.current = <<>>)
     THEN r.dag
     ELSE pass_run(r.m, r.dag, other)

\* At the head of the while loop, with no entry put back yet: a pass over
\* the buffered entries starts here.
PassStart ==
  /\ m.phase = "loop"
  /\ m.current = <<>> \/ m.pending = <<>>

\* The pass that starts here admits at least one node.
PassAdmits ==
  PassStart =>
    NodeCount(pass_run(m, dags[m.self], dags[m.other])) > NodeCount(dags[m.self])

\* C17: with pushes of len >= 1 and merges, every merge that is entered
\* returns, with both queues empty, for every iteration order of
\* other.nodes, and every pass over the buffered entries admits at least
\* one node.
C17_MergeTerminates ==
  /\ [] PassAdmits
  /\ (m.phase # "idle") ~>
       (m.phase = "idle" /\ m.pending = <<>> /\ m.current = <<>>)

\* A second pass starts: the first one has put an entry back.
C17_Witness ==
  /\ m.phase = "loop"
  /\ m.current = <<>>
  /\ m.pending # <<>>

\* The entries popped, in order, from state ms to the end of its pass.
RECURSIVE pass_pops(_, _, _)
pass_pops(ms, self, other) ==
  LET r == merge_step(ms, self, other)
      popped == IF ms.phase = "loop" THEN <<<<r.m.client, r.m.i>>>> ELSE <<>>
  IN IF r.m.phase = "idle" \/ (r.m.phase = "loop" /\ r.m.current = <<>>)
     THEN popped
     ELSE popped \o pass_pops(r.m, r.dag, other)

\* How often e occurs in s.
Count(s, e) == Cardinality({k \in 1 .. Len(s) : s[k] = e})

\* The pass that starts here retries each buffered entry exactly once, and
\* no other entry.
PassRetriesOnce ==
  PassStart =>
    LET buffer == IF m.current = <<>> THEN m.pending ELSE m.current
        pops == pass_pops(m, dags[m.self], dags[m.other])
    IN /\ Len(pops) = Len(buffer)
       /\ \A e \in SeqToSet(buffer) \cup SeqToSet(pops) :
            Count(pops, e) = Count(buffer, e)

\* A pop takes its entry from current, from pending only once current is
\* drained, and the walk resumes at the entry's replica and index.
PopStep ==
  m.phase = "loop" =>
    LET from == IF m.current = <<>> THEN m.pending ELSE m.current
    IN /\ m'.phase = "retry"
       /\ <<m'.client, m'.i>> = from[Len(from)]
       /\ m'.current = SubSeq(from, 1, Len(from) - 1)
       /\ m'.pending = IF m.current = <<>> THEN <<>> ELSE m.pending
       /\ dags' = dags

\* A step of the walk of a retry: an inadmissible node ends the walk and
\* puts its entry on pending; otherwise the walk goes on to the replica's
\* next node, to the end of the list.
RetryStep ==
  m.phase = "retry" =>
    LET self == dags[m.self]
        node_vec == dags[m.other].nodes[m.client]
        node == node_vec[m.i + 1]
    IN /\ m'.current = m.current
       /\ IF ~contains(self, node.id) /\ HasMissingDep(self, node)
          THEN /\ m'.pending = Append(m.pending, <<m.client, m.i>>)
               /\ m'.phase = "loop"
               /\ dags' = dags
          ELSE /\ m'.pending = m.pending
               /\ contains(dags'[m.self], node.id)
               /\ IF m.i + 1 < Len(node_vec)
                  THEN /\ m'.phase = "retry"
                       /\ m'.client = m.client
                       /\ m'.i = m.i + 1
                  ELSE m'.phase \in {"loop", "idle"}

\* C18: within one pass of merge's while loop every buffered entry is
\* retried exactly once; an entry that is still inadmissible goes to
\* pending and is not retried before current is drained; a retry resumes
\* its replica's walk at the recorded index and goes on through the
\* following nodes until one is not admissible.
C18_PendingDiscipline ==
  /\ [] PassRetriesOnce
  /\ [][PopStep /\ RetryStep]_vars

\* An entry has been put back on pending while current still holds one.
C18_Witness ==
  /\ m.phase = "loop"
  /\ m.pending # <<>>
  /\ m.current # <<>>

\* The pointwise maximum of two version vectors.
VVMax(v, w) ==
  [c \in DOMAIN v \cup DOMAIN w |->
     IF c \notin DOMAIN w THEN v[c]
     ELSE IF c \notin DOMAIN v THEN w[c]
     ELSE Max(v[c], w[c])]

\* after is self once self.merge(other) has returned.
MergeComplete(self, other, after) ==
  /\ \A id \in ContainedIDs(other) : contains(after, id)
  /\ after.version_vec = VVMax(self.version_vec, other.version_vec)
  /\ KnownNodes(other) \subseteq KnownNodes(after)

\* C19: after self.merge(other) every ID other contains is contained in
\* self, self's version vector is the pointwise maximum of its previous
\* one and other's, and no node of other is left unadmitted.
C19_MergeComplete ==
  m.phase = "idle" =>
    \A a, b \in DOMAIN dags :
      a # b =>
        \A order \in Orders(DOMAIN dags[b].nodes) :
          MergeComplete(dags[a], dags[b], merge(dags[a], dags[b], order))

\* Two replicas each hold a node the other does not, and one of them
\* holds two replicas' nodes, so that a merge has an order to choose.
C19_Witness ==
  /\ m.phase = "idle"
  /\ \E a, b \in DOMAIN dags :
       /\ Cardinality(DOMAIN dags[b].nodes) >= 2
       /\ \E n \in KnownNodes(dags[b]) : ~contains(dags[a], n.id)
       /\ \E n \in KnownNodes(dags[a]) : ~contains(dags[b], n.id)

\* C20: for any two instances and any ID both contain, get(id) gives
\* nodes of the same id, lamport, len and deps; and an instance that
\* contains the start of a span another instance holds contains all of it.
C20_NodeAgreement ==
  \A r1, r2 \in DOMAIN dags :
    /\ r1 < r2 =>
         \A c \in DOMAIN dags[r1].version_vec \cap DOMAIN dags[r2].version_vec :
           \A j \in 0 .. dags[r1].version_vec[c] - 1 :
             contains(dags[r2], ID(c, j)) =>
               LET n1 == get(dags[r1], ID(c, j))
               IN n1.some /\ n1 = get(dags[r2], ID(c, j))
    /\ r1 # r2 =>
         \A c \in DOMAIN dags[r2].nodes :
           \A k \in 1 .. Len(dags[r2].nodes[c]) :
             LET n == dags[r2].nodes[c][k]
             IN contains(dags[r1], n.id) => contains(dags[r1], SpanEnd(n))

\* Two replicas both contain the second op of a span a third one pushed.
C20_Witness ==
  \E r1, r2 \in DOMAIN dags : \E id \in ContainedIDs(dags[r1]) :
    /\ r1 # r2
    /\ id.client_id \notin {r1, r2}
    /\ contains(dags[r2], id)
    /\ get(dags[r1], id).value.id.counter < id.counter

====
